---- MODULE Spec2Model ----
(***************************************************************************)
(* Cyclic scan control engine of the PLC tank simulator                    *)
(* (src/src/plc_simulator.py, src/src/plc_utils.py).                       *)
(*                                                                         *)
(* One scan cycle of PLCSimulator.execute_control_logic is modelled by     *)
(* three consecutive actions:                                              *)
(*   UpdateInputsAndHandleAlarms  update_inputs() ; handle_alarms()        *)
(*   ExecuteGrafcet               the trip / normal branch, prev_step      *)
(*   WriteOutputs                 write_outputs() ; asyncio.sleep()        *)
(* Temperatures are the floats of the source restricted to whole degrees.  *)
(***************************************************************************)
EXTENDS Integers, FiniteSets, Sequences

\* ---------------------------------------------------------------------
\* Identifiers (plc_io_definitions.py, plc_alarm_logic.py, plc_utils.py)
\* ---------------------------------------------------------------------
START_BUTTON == "DI0"
RUN_BUTTON == "DI1"
STOP_BUTTON == "DI2"
ES_BUTTON == "DI3"
RST_BUTTON == "DI4"
LL_LVL_SENSOR == "DI5"
L_LVL_SENSOR == "DI6"
H_LVL_SENSOR == "DI7"
HH_LVL_SENSOR == "DI8"
DISCHARG_GT_CLOSED == "DI9"

DigitalInputs ==
  {START_BUTTON, RUN_BUTTON, STOP_BUTTON, ES_BUTTON, RST_BUTTON,
   LL_LVL_SENSOR, L_LVL_SENSOR, H_LVL_SENSOR, HH_LVL_SENSOR,
   DISCHARG_GT_CLOSED}

TEMPERATURE_SENSOR == "AI0"

AnalogInputs == {TEMPERATURE_SENSOR}

FILLING_VALVE_OPEN == "DQ0"
DISCHARGING_VALVE_OPEN == "DQ1"
HEATING_ON == "DQ2"
DISCHARGING_GATE_OPEN == "DQ3"

DigitalOutputs ==
  {FILLING_VALVE_OPEN, DISCHARGING_VALVE_OPEN, HEATING_ON,
   DISCHARGING_GATE_OPEN}

TANK_TOO_HIGH == "A0"
TANK_TOO_LOW == "A1"
TEMP_TOO_HIGH == "A2"
TEMP_TOO_LOW == "A3"
DOOR_OPEN == "A4"
ES_PRESSED == "A5"

Alarms ==
  {TANK_TOO_HIGH, TANK_TOO_LOW, TEMP_TOO_HIGH, TEMP_TOO_LOW, DOOR_OPEN,
   ES_PRESSED}

NormalSteps ==
  {"STOP", "PREFILLING", "INITIALISED", "FILLING", "HEATING",
   "DISCHARGING_VALVE"}

ErrorSteps ==
  {"ERROR_A0", "ERROR_A1", "ERROR_A2", "ERROR_A3", "ERROR_A4", "ERROR_A5"}

Steps == NormalSteps \cup ErrorSteps

\* The value Python's None has in check_alarms_and_return_most_urgent.
None == "None"

\* ---------------------------------------------------------------------
\* Constants of PLCSimulator.__init__
\* ---------------------------------------------------------------------
DESIRED_TEMPERATURE == 45
MAX_TEMPERATURE == 80
MIN_TEMPERATURE == 10

map_alarm_to_step ==
  [k \in Alarms |->
     CASE k = TANK_TOO_HIGH -> "ERROR_A0"
       [] k = TANK_TOO_LOW -> "ERROR_A1"
       [] k = TEMP_TOO_HIGH -> "ERROR_A2"
       [] k = TEMP_TOO_LOW -> "ERROR_A3"
       [] k = DOOR_OPEN -> "ERROR_A4"
       [] k = ES_PRESSED -> "ERROR_A5"]

alarms_priority_order_ES_last ==
  <<TANK_TOO_HIGH, TEMP_TOO_HIGH, TANK_TOO_LOW, TEMP_TOO_LOW, DOOR_OPEN,
    ES_PRESSED>>

alarms_priority_order_swapped ==
  <<ES_PRESSED, TEMP_TOO_HIGH, TANK_TOO_HIGH, TANK_TOO_LOW, TEMP_TOO_LOW,
    DOOR_OPEN>>

alarms_priority_order ==
  <<ES_PRESSED, TANK_TOO_HIGH, TEMP_TOO_HIGH, TANK_TOO_LOW, TEMP_TOO_LOW,
    DOOR_OPEN>>

\* Iteration order of self.alarms.items() and self.digital_outputs.items().
alarms_order ==
  <<TANK_TOO_HIGH, TANK_TOO_LOW, TEMP_TOO_HIGH, TEMP_TOO_LOW, DOOR_OPEN,
    ES_PRESSED>>

digital_outputs_order ==
  <<FILLING_VALVE_OPEN, DISCHARGING_VALVE_OPEN, HEATING_ON,
    DISCHARGING_GATE_OPEN>>

\* Exceptions that can leave the while loop: the cancellation asyncio.run
\* delivers on shutdown, and an error of a transport call.
CancelledError == "CancelledError"
UaError == "UaError"

\* ---------------------------------------------------------------------
\* Bounds of the model
\* ---------------------------------------------------------------------
\* Readings of the temperature tag: below, at and above each of the three
\* thresholds (10, 45, 80), and the start-up value 20.
TempValues == {9, 10, 20, 45, 80, 81}

\* Largest number of input tags whose value differs between the snapshots
\* read by two consecutive scan cycles (a client writes one tag per call).
MaxWrites == 1

\* Input tags the environment drives in Spec: every input an alarm condition
\* or the reset intake reads, and the start button.  The other inputs (run,
\* stop, low and high level) keep their start-up values.
AlarmInputTags ==
  {START_BUTTON, ES_BUTTON, RST_BUTTON, LL_LVL_SENSOR, HH_LVL_SENSOR,
   DISCHARG_GT_CLOSED, TEMPERATURE_SENSOR}

AlarmChangedTagSets ==
  {S \in SUBSET AlarmInputTags : Cardinality(S) <= MaxWrites}

\* Input tags the environment drives in SpecProcess: the operator buttons,
\* the reset, the level sensors and the temperature the GRAFCET reads, and
\* the low-low level sensor.  Emergency stop, high-high level and the gate
\* sensor keep their start-up values.
ProcessInputTags ==
  {START_BUTTON, RUN_BUTTON, STOP_BUTTON, RST_BUTTON, LL_LVL_SENSOR,
   L_LVL_SENSOR, H_LVL_SENSOR, TEMPERATURE_SENSOR}

ProcessChangedTagSets ==
  {S \in SUBSET ProcessInputTags : Cardinality(S) <= MaxWrites}

\* Input tags the environment drives in SpecSafety: what takes the process
\* through all its steps, the stop button, the emergency stop and the
\* high-high level sensor.
SafetyInputTags ==
  {START_BUTTON, RUN_BUTTON, STOP_BUTTON, L_LVL_SENSOR, H_LVL_SENSOR,
   TEMPERATURE_SENSOR, ES_BUTTON, HH_LVL_SENSOR}

SafetyChangedTagSets ==
  {S \in SUBSET SafetyInputTags : Cardinality(S) <= MaxWrites}

\* Input tags the environment drives in SpecGate: what takes the process
\* through all its steps, the low-low level sensor and the gate sensor.
GateInputTags ==
  {START_BUTTON, RUN_BUTTON, L_LVL_SENSOR, H_LVL_SENSOR, TEMPERATURE_SENSOR,
   LL_LVL_SENSOR, DISCHARG_GT_CLOSED}

GateChangedTagSets ==
  {S \in SUBSET GateInputTags : Cardinality(S) <= MaxWrites}

\* Input tags the environment drives in SpecTransport: what takes the
\* process through all its steps, the stop button and the emergency stop.
TransportInputTags ==
  {START_BUTTON, RUN_BUTTON, STOP_BUTTON, ES_BUTTON, L_LVL_SENSOR,
   H_LVL_SENSOR, TEMPERATURE_SENSOR}

TransportChangedTagSets ==
  {S \in SUBSET TransportInputTags : Cardinality(S) <= MaxWrites}

\* Input tags the environment drives in SpecClient: what starts the process
\* and fills the tank to the low level, and the temperature.
ClientInputTags ==
  {START_BUTTON, L_LVL_SENSOR, TEMPERATURE_SENSOR}

ClientChangedTagSets ==
  {S \in SUBSET ClientInputTags : Cardinality(S) <= MaxWrites}

\* The alarm whose attribute tags an external client writes in SpecClient
\* (it writes every digital-output tag).
ClientWrittenAlarms == {TEMP_TOO_HIGH}

VARIABLES
  digital_inputs,             \* self.digital_inputs
  analog_inputs,              \* self.analog_inputs
  digital_outputs,            \* self.digital_outputs
  alarms,                     \* self.alarms
  step,                       \* self.step
  trip,                       \* self.trip
  last_low_low_sensor_state,  \* self.last_low_low_sensor_state
  prev_step,                  \* local prev_step of execute_control_logic
  server_outputs,             \* output tags published on the OPC UA server
  server_alarms,              \* alarm attribute tags published on the server
  pc,                         \* position of the scan loop
  next_item,                  \* next item of the running for loop (set_alarms, write_outputs)
  raised,                     \* exception that left the while loop, or None
  server_inputs               \* input tags held by the OPC UA server

vars ==
  <<digital_inputs, analog_inputs, digital_outputs, alarms, step, trip,
    last_low_low_sensor_state, prev_step, server_outputs, server_alarms, pc,
    next_item, raised, server_inputs>>

\* ---------------------------------------------------------------------
\* Transitions (plc_utils.py)
\* ---------------------------------------------------------------------
start_or_run_button_pressed_and_gate_closed(di) ==
  (di[START_BUTTON] \/ di[RUN_BUTTON]) /\ di[DISCHARG_GT_CLOSED]

start_button_pressed_and_gate_closed(di) ==
  di[START_BUTTON] /\ di[DISCHARG_GT_CLOSED]

tank_reached_low_low_level(di) == di[LL_LVL_SENSOR]

tank_reached_low_level(di) == di[L_LVL_SENSOR]

run_or_start_button_pressed(di) == di[RUN_BUTTON] \/ di[START_BUTTON]

run_button_pressed(di) == di[RUN_BUTTON]

tank_reached_high_high_level(di) == di[HH_LVL_SENSOR]

tank_reached_high_level(di) == di[H_LVL_SENSOR]

temperature_above_setpoint(ai) ==
  ai[TEMPERATURE_SENSOR] > DESIRED_TEMPERATURE

temperature_reached_setpoint(ai) ==
  ai[TEMPERATURE_SENSOR] >= DESIRED_TEMPERATURE

tank_back_to_low_level(di) == di[L_LVL_SENSOR]

stop_requested_unless_run(di) == di[STOP_BUTTON] /\ ~di[RUN_BUTTON]

stop_requested(di) == di[STOP_BUTTON]

\* ---------------------------------------------------------------------
\* PLCCommonOperations (plc_utils.py)
\* ---------------------------------------------------------------------
stop_system_no_discharging_valve(out) ==
  [out EXCEPT ![FILLING_VALVE_OPEN] = FALSE, ![HEATING_ON] = FALSE]

stop_system_no_heating(out) ==
  [out EXCEPT ![FILLING_VALVE_OPEN] = FALSE,
              ![DISCHARGING_VALVE_OPEN] = FALSE]

stop_system(out) ==
  [out EXCEPT ![FILLING_VALVE_OPEN] = FALSE,
              ![HEATING_ON] = FALSE,
              ![DISCHARGING_VALVE_OPEN] = FALSE]

stop_heating_open_gate_closes_gate(out) ==
  [out EXCEPT ![HEATING_ON] = FALSE, ![DISCHARGING_GATE_OPEN] = FALSE]

stop_heating_open_gate_gate_only(out) ==
  [out EXCEPT ![DISCHARGING_GATE_OPEN] = TRUE]

stop_heating_open_gate(out) ==
  [out EXCEPT ![HEATING_ON] = FALSE, ![DISCHARGING_GATE_OPEN] = TRUE]

\* The gate output written with the sense of the gate-closed sensor.
stop_fluid_flow_open_gate_written_false(out) ==
  [out EXCEPT ![FILLING_VALVE_OPEN] = FALSE,
              ![DISCHARGING_GATE_OPEN] = FALSE]

stop_fluid_flow_open_gate(out) ==
  [out EXCEPT ![FILLING_VALVE_OPEN] = FALSE, ![DISCHARGING_GATE_OPEN] = TRUE]

\* ---------------------------------------------------------------------
\* Alarm subsystem (plc_simulator.py)
\* ---------------------------------------------------------------------
\* The temperature limits taken as part of the alarm ranges.
ActiveCondition_inclusive_limits(k, di, ai, last) ==
  CASE k = TANK_TOO_HIGH -> di[HH_LVL_SENSOR]
    [] k = TANK_TOO_LOW -> last /\ ~di[LL_LVL_SENSOR]
    [] k = TEMP_TOO_HIGH -> ai[TEMPERATURE_SENSOR] >= MAX_TEMPERATURE
    [] k = TEMP_TOO_LOW -> ai[TEMPERATURE_SENSOR] <= MIN_TEMPERATURE
    [] k = DOOR_OPEN -> ~di[DISCHARG_GT_CLOSED]
    [] k = ES_PRESSED -> di[ES_BUTTON]

\* Tank-low read from the level of the low-low sensor, without the edge.
ActiveCondition_level_triggered(k, di, ai, last) ==
  CASE k = TANK_TOO_HIGH -> di[HH_LVL_SENSOR]
    [] k = TANK_TOO_LOW -> ~di[LL_LVL_SENSOR]
    [] k = TEMP_TOO_HIGH -> ai[TEMPERATURE_SENSOR] > MAX_TEMPERATURE
    [] k = TEMP_TOO_LOW -> ai[TEMPERATURE_SENSOR] < MIN_TEMPERATURE
    [] k = DOOR_OPEN -> ~di[DISCHARG_GT_CLOSED]
    [] k = ES_PRESSED -> di[ES_BUTTON]

\* The condition update_alarms_active_state assigns to alarm k's Active.
ActiveCondition(k, di, ai, last) ==
  CASE k = TANK_TOO_HIGH -> di[HH_LVL_SENSOR]
    [] k = TANK_TOO_LOW -> last /\ ~di[LL_LVL_SENSOR]
    [] k = TEMP_TOO_HIGH -> ai[TEMPERATURE_SENSOR] > MAX_TEMPERATURE
    [] k = TEMP_TOO_LOW -> ai[TEMPERATURE_SENSOR] < MIN_TEMPERATURE
    [] k = DOOR_OPEN -> ~di[DISCHARG_GT_CLOSED]
    [] k = ES_PRESSED -> di[ES_BUTTON]

update_alarms_active_state(al, di, ai, last) ==
  [k \in Alarms |-> [al[k] EXCEPT !.Active = ActiveCondition(k, di, ai, last)]]

reset_alarms_keeps_tank_low(al) ==
  [k \in Alarms |->
     IF k = TANK_TOO_LOW THEN al[k]
     ELSE [al[k] EXCEPT !.UnAck = FALSE, !.Status = FALSE]]

reset_alarms_UnAck_only(al) ==
  [k \in Alarms |-> [al[k] EXCEPT !.UnAck = FALSE]]

reset_alarms(al) ==
  [k \in Alarms |-> [al[k] EXCEPT !.UnAck = FALSE, !.Status = FALSE]]

set_alarms_UnAck_only(al) ==
  [k \in Alarms |->
     IF al[k].Active THEN [al[k] EXCEPT !.UnAck = TRUE] ELSE al[k]]

set_alarms_any_active(al) ==
  [k \in Alarms |->
     IF \E j \in Alarms : al[j].Active
       THEN [al[k] EXCEPT !.UnAck = TRUE, !.Status = TRUE]
       ELSE al[k]]

set_alarms_not_latching(al) ==
  [k \in Alarms |->
     [al[k] EXCEPT !.UnAck = al[k].Active, !.Status = al[k].Active]]

set_alarms(al) ==
  [k \in Alarms |->
     IF al[k].Active
       THEN [al[k] EXCEPT !.UnAck = TRUE, !.Status = TRUE]
       ELSE al[k]]

\* Index of the first alarm of the priority order that is Active, 0 if none.
FirstActiveIndex(al) ==
  LET hits == {i \in 1..Len(alarms_priority_order) :
                 al[alarms_priority_order[i]].Active}
  IN IF hits = {} THEN 0
     ELSE CHOOSE i \in hits : \A j \in hits : i <= j

check_alarms_and_return_most_urgent(al) ==
  IF FirstActiveIndex(al) = 0
    THEN None
    ELSE alarms_priority_order[FirstActiveIndex(al)]

\* The alarm registers after steps 1-3 of handle_alarms: reset intake,
\* Active recomputation, UnAck/Status update.
handle_alarms_always_reset(al, di, ai, last) ==
  set_alarms(update_alarms_active_state(reset_alarms(al), di, ai, last))

handle_alarms_reset_last(al, di, ai, last) ==
  LET updated == set_alarms(update_alarms_active_state(al, di, ai, last))
  IN IF di[RST_BUTTON] THEN reset_alarms(updated) ELSE updated

handle_alarms_registers(al, di, ai, last) ==
  set_alarms(
    update_alarms_active_state(
      IF di[RST_BUTTON] THEN reset_alarms(al) ELSE al, di, ai, last))

\* Steps 4-5 of handle_alarms: "if alarm_id:" assigns trip and step, and
\* there is no else branch.
handle_alarms_trip_follows_verdict(alarm_id, tr) == alarm_id # None

handle_alarms_trip(alarm_id, tr) == IF alarm_id # None THEN TRUE ELSE tr

handle_alarms_step(alarm_id, st) ==
  IF alarm_id # None THEN map_alarm_to_step[alarm_id] ELSE st

\* ---------------------------------------------------------------------
\* GRAFCET of execute_control_logic (plc_simulator.py)
\* ---------------------------------------------------------------------
\* Error handling logic, the branch taken when self.trip is true.
error_handling_outputs(st, out) ==
  CASE st = "ERROR_A0" ->
         [stop_system(out) EXCEPT ![DISCHARGING_GATE_OPEN] = TRUE]
    [] st = "ERROR_A1" -> stop_system(out)
    [] st = "ERROR_A2" -> stop_heating_open_gate(out)
    [] st = "ERROR_A3" -> stop_fluid_flow_open_gate(out)
    [] st = "ERROR_A4" -> stop_system(out)
    [] st = "ERROR_A5" ->
         [stop_system(out) EXCEPT ![DISCHARGING_GATE_OPEN] = TRUE]
    [] OTHER -> out

\* Prefilling goes straight to Filling once the low level is reached.
normal_operation_step_skips_initialised(st, di, ai) ==
  CASE stop_requested(di) -> "STOP"
    [] ~stop_requested(di) /\ st = "STOP" ->
         IF start_button_pressed_and_gate_closed(di) THEN "PREFILLING" ELSE st
    [] ~stop_requested(di) /\ st = "PREFILLING" ->
         IF tank_reached_low_level(di) THEN "FILLING" ELSE st
    [] ~stop_requested(di) /\ st = "INITIALISED" ->
         IF run_button_pressed(di) THEN "FILLING" ELSE st
    [] ~stop_requested(di) /\ st = "FILLING" ->
         IF tank_reached_high_level(di) THEN "HEATING" ELSE st
    [] ~stop_requested(di) /\ st = "HEATING" ->
         IF temperature_reached_setpoint(ai) THEN "DISCHARGING_VALVE" ELSE st
    [] ~stop_requested(di) /\ st = "DISCHARGING_VALVE" ->
         IF tank_back_to_low_level(di) THEN "FILLING" ELSE st
    [] OTHER -> st

\* Normal operation logic, the branch taken when self.trip is false.
normal_operation_step(st, di, ai) ==
  CASE stop_requested(di) -> "STOP"
    [] ~stop_requested(di) /\ st = "STOP" ->
         IF start_button_pressed_and_gate_closed(di) THEN "PREFILLING" ELSE st
    [] ~stop_requested(di) /\ st = "PREFILLING" ->
         IF tank_reached_low_level(di) THEN "INITIALISED" ELSE st
    [] ~stop_requested(di) /\ st = "INITIALISED" ->
         IF run_button_pressed(di) THEN "FILLING" ELSE st
    [] ~stop_requested(di) /\ st = "FILLING" ->
         IF tank_reached_high_level(di) THEN "HEATING" ELSE st
    [] ~stop_requested(di) /\ st = "HEATING" ->
         IF temperature_reached_setpoint(ai) THEN "DISCHARGING_VALVE" ELSE st
    [] ~stop_requested(di) /\ st = "DISCHARGING_VALVE" ->
         IF tank_back_to_low_level(di) THEN "FILLING" ELSE st
    [] OTHER -> st

\* Leaving Filling switches heating on and leaves the filling valve open.
normal_operation_outputs_heats_while_filling(st, out, di, ai) ==
  CASE stop_requested(di) -> stop_system(out)
    [] ~stop_requested(di) /\ st = "PREFILLING" ->
         [out EXCEPT ![FILLING_VALVE_OPEN] = ~tank_reached_low_level(di)]
    [] ~stop_requested(di) /\ st = "FILLING" ->
         [out EXCEPT ![FILLING_VALVE_OPEN] = TRUE,
                     ![HEATING_ON] = tank_reached_high_level(di)]
    [] ~stop_requested(di) /\ st = "HEATING" ->
         [out EXCEPT ![HEATING_ON] = ~temperature_reached_setpoint(ai)]
    [] ~stop_requested(di) /\ st = "DISCHARGING_VALVE" ->
         [out EXCEPT ![DISCHARGING_VALVE_OPEN] = ~tank_back_to_low_level(di)]
    [] OTHER -> out

normal_operation_outputs(st, out, di, ai) ==
  CASE stop_requested(di) -> stop_system(out)
    [] ~stop_requested(di) /\ st = "PREFILLING" ->
         [out EXCEPT ![FILLING_VALVE_OPEN] = ~tank_reached_low_level(di)]
    [] ~stop_requested(di) /\ st = "FILLING" ->
         [out EXCEPT ![FILLING_VALVE_OPEN] = ~tank_reached_high_level(di)]
    [] ~stop_requested(di) /\ st = "HEATING" ->
         [out EXCEPT ![HEATING_ON] = ~temperature_reached_setpoint(ai)]
    [] ~stop_requested(di) /\ st = "DISCHARGING_VALVE" ->
         [out EXCEPT ![DISCHARGING_VALVE_OPEN] = ~tank_back_to_low_level(di)]
    [] OTHER -> out

\* The "if self.trip: ... else: ..." dispatch between the two branches.
execute_control_logic_step_stop_first(tr, st, di, ai) ==
  IF stop_requested(di) THEN "STOP"
  ELSE IF tr THEN st
  ELSE normal_operation_step(st, di, ai)

execute_control_logic_step(tr, st, di, ai) ==
  IF tr THEN st ELSE normal_operation_step(st, di, ai)

execute_control_logic_outputs_stop_first(tr, st, out, di, ai) ==
  IF stop_requested(di) THEN stop_system(out)
  ELSE IF tr THEN error_handling_outputs(st, out)
  ELSE normal_operation_outputs(st, out, di, ai)

execute_control_logic_outputs(tr, st, out, di, ai) ==
  IF tr THEN error_handling_outputs(st, out)
  ELSE normal_operation_outputs(st, out, di, ai)

\* ---------------------------------------------------------------------
\* Initial state: PLCSimulator.__init__ and set_opcua_server
\* ---------------------------------------------------------------------
Init ==
  /\ digital_inputs =
       [n \in DigitalInputs |-> n = DISCHARG_GT_CLOSED]
  /\ analog_inputs = [n \in AnalogInputs |-> 20]
  /\ digital_outputs =
       [n \in DigitalOutputs |-> n = DISCHARGING_GATE_OPEN]
  /\ alarms =
       [k \in Alarms |-> [Active |-> FALSE, UnAck |-> FALSE, Status |-> FALSE]]
  /\ step = "STOP"
  /\ trip = FALSE
  /\ last_low_low_sensor_state = FALSE
  /\ prev_step = "unknown"
  /\ server_outputs =
       [n \in DigitalOutputs |-> n = DISCHARGING_GATE_OPEN]
  /\ server_alarms =
       [k \in Alarms |-> [Active |-> FALSE, UnAck |-> FALSE, Status |-> FALSE]]
  /\ pc = "update_inputs"
  /\ next_item = 1
  /\ raised = None
  /\ server_inputs =
       [n \in DigitalInputs \cup AnalogInputs |->
          IF n \in AnalogInputs THEN 20 ELSE n = DISCHARG_GT_CLOSED]

\* The input tags of the server when update_inputs has read di and ai from
\* them.
tags_read(di, ai) ==
  [n \in DigitalInputs \cup AnalogInputs |->
     IF n \in AnalogInputs THEN ai[n] ELSE di[n]]

\* ---------------------------------------------------------------------
\* The scan loop of execute_control_logic
\* ---------------------------------------------------------------------
\* await self.update_inputs(); await self.handle_alarms()
\* The snapshot read differs from the previous one in the tags of changed;
\* a changed digital tag is inverted, a changed temperature reads t.
UpdateInputsAndHandleAlarms(changed, t) ==
  /\ pc = "update_inputs"
  /\ TEMPERATURE_SENSOR \in changed => t # analog_inputs[TEMPERATURE_SENSOR]
  /\ TEMPERATURE_SENSOR \notin changed => t = analog_inputs[TEMPERATURE_SENSOR]
  /\ LET di == [n \in DigitalInputs |->
                  IF n \in changed THEN ~digital_inputs[n]
                  ELSE digital_inputs[n]]
         ai == [n \in AnalogInputs |-> t]
         al == handle_alarms_registers(alarms, di, ai,
                                       last_low_low_sensor_state)
         alarm_id == check_alarms_and_return_most_urgent(al)
     IN /\ digital_inputs' = di
        /\ analog_inputs' = ai
        /\ server_inputs' = tags_read(di, ai)
        /\ alarms' = al
        /\ server_alarms' = al
        /\ last_low_low_sensor_state' = di[LL_LVL_SENSOR]
        /\ trip' = handle_alarms_trip(alarm_id, trip)
        /\ step' = handle_alarms_step(alarm_id, step)
  /\ pc' = "control_logic"
  /\ UNCHANGED <<digital_outputs, prev_step, server_outputs, next_item,
                 raised>>

\* The if self.trip / else block and the prev_step bookkeeping.
ExecuteGrafcet ==
  /\ pc = "control_logic"
  /\ digital_outputs' =
       execute_control_logic_outputs(trip, step, digital_outputs,
                                     digital_inputs, analog_inputs)
  /\ step' =
       execute_control_logic_step(trip, step, digital_inputs, analog_inputs)
  /\ prev_step' = step'
  /\ pc' = "write_outputs"
  /\ UNCHANGED server_inputs
  /\ UNCHANGED <<digital_inputs, analog_inputs, alarms, trip,
                 last_low_low_sensor_state, server_outputs, server_alarms,
                 next_item, raised>>

\* await self.write_outputs(); await asyncio.sleep(self.CYCLE_TIME)
WriteOutputs ==
  /\ pc = "write_outputs"
  /\ server_outputs' = digital_outputs
  /\ pc' = "update_inputs"
  /\ UNCHANGED server_inputs
  /\ UNCHANGED <<digital_inputs, analog_inputs, digital_outputs, alarms, step,
                 trip, last_low_low_sensor_state, prev_step, server_alarms,
                 next_item, raised>>

Next ==
  \/ \E changed \in AlarmChangedTagSets, t \in TempValues :
       UpdateInputsAndHandleAlarms(changed, t)
  \/ ExecuteGrafcet
  \/ WriteOutputs

Spec == Init /\ [][Next]_vars

\* The same scan loop with the environment driving the process inputs.
NextProcess ==
  \/ \E changed \in ProcessChangedTagSets, t \in TempValues :
       UpdateInputsAndHandleAlarms(changed, t)
  \/ ExecuteGrafcet
  \/ WriteOutputs

SpecProcess == Init /\ [][NextProcess]_vars

\* The same scan loop with the environment driving the process inputs, the
\* emergency stop and the high-high level sensor.
NextSafety ==
  \/ \E changed \in SafetyChangedTagSets, t \in TempValues :
       UpdateInputsAndHandleAlarms(changed, t)
  \/ ExecuteGrafcet
  \/ WriteOutputs

SpecSafety == Init /\ [][NextSafety]_vars

\* The same scan loop with the environment driving the process inputs, the
\* low-low level sensor and the gate sensor.
NextGate ==
  \/ \E changed \in GateChangedTagSets, t \in TempValues :
       UpdateInputsAndHandleAlarms(changed, t)
  \/ ExecuteGrafcet
  \/ WriteOutputs

SpecGate == Init /\ [][NextGate]_vars

\* ---------------------------------------------------------------------
\* The scan loop at the granularity of its transport calls
\* ---------------------------------------------------------------------
\* await self.update_inputs() and the part of handle_alarms that runs before
\* the first transport call of set_alarms: reset intake and Active
\* recomputation.
UpdateInputs(changed, t) ==
  /\ pc = "update_inputs"
  /\ TEMPERATURE_SENSOR \in changed => t # analog_inputs[TEMPERATURE_SENSOR]
  /\ TEMPERATURE_SENSOR \notin changed => t = analog_inputs[TEMPERATURE_SENSOR]
  /\ LET di == [n \in DigitalInputs |->
                  IF n \in changed THEN ~digital_inputs[n]
                  ELSE digital_inputs[n]]
         ai == [n \in AnalogInputs |-> t]
     IN /\ digital_inputs' = di
        /\ analog_inputs' = ai
        /\ server_inputs' = tags_read(di, ai)
        /\ alarms' = update_alarms_active_state(
                       IF di[RST_BUTTON] THEN reset_alarms(alarms) ELSE alarms,
                       di, ai, last_low_low_sensor_state)
        /\ last_low_low_sensor_state' = di[LL_LVL_SENSOR]
  /\ pc' = "set_alarms"
  /\ UNCHANGED <<digital_outputs, step, trip, prev_step, server_outputs,
                 server_alarms, next_item, raised>>

\* set_alarms writing the attribute tags only of an alarm that is Active.
SetAlarm_writes_only_active ==
  /\ pc = "set_alarms"
  /\ LET key == alarms_order[next_item]
         values == IF alarms[key].Active
                   THEN [alarms[key] EXCEPT !.UnAck = TRUE, !.Status = TRUE]
                   ELSE alarms[key]
         al == [alarms EXCEPT ![key] = values]
         alarm_id == check_alarms_and_return_most_urgent(al)
     IN /\ alarms' = al
        /\ server_alarms' = IF alarms[key].Active
                            THEN [server_alarms EXCEPT ![key] = values]
                            ELSE server_alarms
        /\ IF next_item < Len(alarms_order)
           THEN /\ next_item' = next_item + 1
                /\ pc' = "set_alarms"
                /\ UNCHANGED <<trip, step>>
           ELSE /\ next_item' = 1
                /\ pc' = "control_logic"
                /\ trip' = handle_alarms_trip(alarm_id, trip)
                /\ step' = handle_alarms_step(alarm_id, step)
  /\ UNCHANGED server_inputs
  /\ UNCHANGED <<digital_inputs, analog_inputs, digital_outputs,
                 last_low_low_sensor_state, prev_step, server_outputs, raised>>

\* One iteration of the for loop of set_alarms: latch the alarm if Active and
\* write its attributes to the server.  After the last iteration handle_alarms
\* picks the most urgent alarm and assigns trip and step.
SetAlarm ==
  /\ pc = "set_alarms"
  /\ LET key == alarms_order[next_item]
         values == IF alarms[key].Active
                   THEN [alarms[key] EXCEPT !.UnAck = TRUE, !.Status = TRUE]
                   ELSE alarms[key]
         al == [alarms EXCEPT ![key] = values]
         alarm_id == check_alarms_and_return_most_urgent(al)
     IN /\ alarms' = al
        /\ server_alarms' = [server_alarms EXCEPT ![key] = values]
        /\ IF next_item < Len(alarms_order)
           THEN /\ next_item' = next_item + 1
                /\ pc' = "set_alarms"
                /\ UNCHANGED <<trip, step>>
           ELSE /\ next_item' = 1
                /\ pc' = "control_logic"
                /\ trip' = handle_alarms_trip(alarm_id, trip)
                /\ step' = handle_alarms_step(alarm_id, step)
  /\ UNCHANGED server_inputs
  /\ UNCHANGED <<digital_inputs, analog_inputs, digital_outputs,
                 last_low_low_sensor_state, prev_step, server_outputs, raised>>

\* write_outputs returning to the loop after its first write.
WriteOutput_single_write ==
  /\ pc = "write_outputs"
  /\ LET name == digital_outputs_order[next_item]
     IN server_outputs' =
          [server_outputs EXCEPT ![name] = digital_outputs[name]]
  /\ next_item' = 1
  /\ pc' = "update_inputs"
  /\ UNCHANGED server_inputs
  /\ UNCHANGED <<digital_inputs, analog_inputs, digital_outputs, alarms, step,
                 trip, last_low_low_sensor_state, prev_step, server_alarms,
                 raised>>

\* One iteration of the for loop of write_outputs; after the last one the
\* loop sleeps for CYCLE_TIME.
WriteOutput ==
  /\ pc = "write_outputs"
  /\ LET name == digital_outputs_order[next_item]
     IN server_outputs' =
          [server_outputs EXCEPT ![name] = digital_outputs[name]]
  /\ IF next_item < Len(digital_outputs_order)
     THEN next_item' = next_item + 1 /\ pc' = "write_outputs"
     ELSE next_item' = 1 /\ pc' = "update_inputs"
  /\ UNCHANGED server_inputs
  /\ UNCHANGED <<digital_inputs, analog_inputs, digital_outputs, alarms, step,
                 trip, last_low_low_sensor_state, prev_step, server_alarms,
                 raised>>

\* The positions at which the loop is suspended in an await: the sleep and
\* the reads of update_inputs, the writes of set_alarms, the writes of
\* write_outputs.
AwaitPoints == {"update_inputs", "set_alarms", "write_outputs"}

\* An exception is raised at the await the loop is suspended in; nothing in
\* the while loop catches it, so control passes to the finally block.
Raise(e) ==
  /\ pc \in AwaitPoints
  /\ raised' = e
  /\ pc' = "finally"
  /\ UNCHANGED server_inputs
  /\ UNCHANGED <<digital_inputs, analog_inputs, digital_outputs, alarms, step,
                 trip, last_low_low_sensor_state, prev_step, server_outputs,
                 server_alarms, next_item>>

\* finally: await self.server.stop()
ServerStop ==
  /\ pc = "finally"
  /\ pc' = "stopped"
  /\ UNCHANGED server_inputs
  /\ UNCHANGED <<digital_inputs, analog_inputs, digital_outputs, alarms, step,
                 trip, last_low_low_sensor_state, prev_step, server_outputs,
                 server_alarms, next_item, raised>>

NextTransport ==
  \/ \E changed \in TransportChangedTagSets, t \in TempValues :
       UpdateInputs(changed, t)
  \/ SetAlarm
  \/ ExecuteGrafcet
  \/ WriteOutput
  \/ \E e \in {CancelledError, UaError} : Raise(e)
  \/ ServerStop

SpecTransport == Init /\ [][NextTransport]_vars

\* =====================================================================
\* Properties
\* =====================================================================
AnyStatus == \E a \in Alarms : alarms[a].Status

AnyActive == \E a \in Alarms : alarms[a].Active

\* handle_alarms of the current cycle has run, the GRAFCET has not yet.
AfterAlarmEvaluation == pc = "control_logic"

\* The Error step of the first alarm, in the order emergency-stop, tank-high,
\* temperature-high, tank-low, temperature-low, door-open, whose Status is
\* true; None if there is none.
MostUrgentByStatus ==
  IF alarms[ES_PRESSED].Status THEN "ERROR_A5"
  ELSE IF alarms[TANK_TOO_HIGH].Status THEN "ERROR_A0"
  ELSE IF alarms[TEMP_TOO_HIGH].Status THEN "ERROR_A2"
  ELSE IF alarms[TANK_TOO_LOW].Status THEN "ERROR_A1"
  ELSE IF alarms[TEMP_TOO_LOW].Status THEN "ERROR_A3"
  ELSE IF alarms[DOOR_OPEN].Status THEN "ERROR_A4"
  ELSE None

\* The same, for the alarms whose Active is true.
MostUrgentByActive ==
  IF alarms[ES_PRESSED].Active THEN "ERROR_A5"
  ELSE IF alarms[TANK_TOO_HIGH].Active THEN "ERROR_A0"
  ELSE IF alarms[TEMP_TOO_HIGH].Active THEN "ERROR_A2"
  ELSE IF alarms[TANK_TOO_LOW].Active THEN "ERROR_A1"
  ELSE IF alarms[TEMP_TOO_LOW].Active THEN "ERROR_A3"
  ELSE IF alarms[DOOR_OPEN].Active THEN "ERROR_A4"
  ELSE None

\* C1: for each of the six alarms Status equals (Active OR UnAck) once the
\* alarm evaluation of a cycle is complete, reset cycles included.
C1_StatusIsActiveOrUnAck ==
  \A a \in Alarms : alarms[a].Status = (alarms[a].Active \/ alarms[a].UnAck)

\* A completed reset cycle that left one alarm Active and another one clear.
C1_Witness ==
  /\ pc = "update_inputs"
  /\ prev_step # "unknown"
  /\ digital_inputs[RST_BUTTON]
  /\ alarms[TEMP_TOO_HIGH].Active /\ alarms[TEMP_TOO_HIGH].Status
  /\ ~alarms[DOOR_OPEN].Status /\ ~alarms[DOOR_OPEN].UnAck

\* C2: after the alarm evaluation of a cycle, if some alarm has Status true
\* then Step is the Error step of the first alarm of the priority order whose
\* Status is true, also when that alarm is only latched while a
\* lower-priority alarm is Active.
C2_ArbitrationByStatus ==
  (AfterAlarmEvaluation /\ MostUrgentByStatus # None)
    => step = MostUrgentByStatus

\* C3: whenever some alarm has Status true after the alarm evaluation of a
\* cycle, Trip is true, so the error branch is the one that runs.
C3_StatusImpliesTrip == (AfterAlarmEvaluation /\ AnyStatus) => trip

\* An alarm is latched (Status true) while no alarm is Active in the cycle.
C3_Witness ==
  /\ AfterAlarmEvaluation
  /\ AnyStatus
  /\ ~AnyActive
  /\ trip

\* C4: whenever every alarm's Status is false after the alarm evaluation of
\* a cycle, Trip is false.
C4_NoStatusNoTrip == (AfterAlarmEvaluation /\ ~AnyStatus) => ~trip

\* C5: a cycle that starts in an Error step, reads the reset input asserted
\* and finds no alarm condition true leaves the error branch: Trip is false
\* and the normal branch runs with Step = Stop.
C5_RecoveryAfterReset ==
  (/\ AfterAlarmEvaluation
   /\ prev_step \in ErrorSteps
   /\ digital_inputs[RST_BUTTON]
   /\ ~AnyActive)
    => (~trip /\ step = "STOP")

\* C6: an alarm that is Active in a cycle with the reset input asserted has
\* UnAck and Status true at the end of that cycle.
C6_ResetWhileActiveIsNoOp ==
  \A a \in Alarms :
    (digital_inputs[RST_BUTTON] /\ alarms[a].Active)
      => (alarms[a].UnAck /\ alarms[a].Status)

\* Reset is asserted while the emergency stop, which already drove the
\* previous cycle, is still pressed.
C6_Witness ==
  /\ AfterAlarmEvaluation
  /\ prev_step = "ERROR_A5"
  /\ digital_inputs[RST_BUTTON]
  /\ alarms[ES_PRESSED].Active
  /\ alarms[ES_PRESSED].UnAck /\ alarms[ES_PRESSED].Status

\* C7: a cycle with the reset input asserted ends, for every alarm whose
\* condition is false in it, with UnAck = Status = false, whatever the other
\* alarms do.
C7_ResetClearsInactive ==
  \A a \in Alarms :
    (digital_inputs[RST_BUTTON] /\ ~alarms[a].Active)
      => (~alarms[a].UnAck /\ ~alarms[a].Status)

\* The emergency-stop alarm that drove the previous cycle is cleared by the
\* reset while the tank-high alarm stays raised.
C7_Witness ==
  /\ AfterAlarmEvaluation
  /\ prev_step = "ERROR_A5"
  /\ digital_inputs[RST_BUTTON]
  /\ ~alarms[ES_PRESSED].UnAck /\ ~alarms[ES_PRESSED].Status
  /\ alarms[TANK_TOO_HIGH].Active /\ alarms[TANK_TOO_HIGH].Status

\* C8: UnAck (and with it Status) goes from true to false only in a cycle
\* that reads the reset input asserted and finds the alarm not Active; while
\* UnAck stays true, Status stays true.
C8_Latching ==
  [][\A a \in Alarms :
       /\ (alarms[a].UnAck /\ ~alarms'[a].UnAck)
            => (digital_inputs'[RST_BUTTON] /\ ~alarms'[a].Active)
       /\ (alarms[a].Status /\ ~alarms'[a].Status)
            => (digital_inputs'[RST_BUTTON] /\ ~alarms'[a].Active)
       /\ (alarms[a].UnAck /\ alarms'[a].UnAck) => alarms'[a].Status]_vars

\* The tank-high condition has cleared, no reset was read, the alarm is
\* still latched.
C8_Witness ==
  /\ AfterAlarmEvaluation
  /\ ~digital_inputs[RST_BUTTON]
  /\ ~alarms[TANK_TOO_HIGH].Active
  /\ alarms[TANK_TOO_HIGH].UnAck /\ alarms[TANK_TOO_HIGH].Status

\* C9: UnAck goes from false to true only in a cycle in which the alarm is
\* Active, and Active implies UnAck at the end of every cycle.
C9_UnAckOnlyWhenActive ==
  /\ [](\A a \in Alarms : alarms[a].Active => alarms[a].UnAck)
  /\ [][\A a \in Alarms :
          (~alarms[a].UnAck /\ alarms'[a].UnAck) => alarms'[a].Active]_vars

\* The door-open alarm is raised while the emergency-stop alarm is not.
C9_Witness ==
  /\ AfterAlarmEvaluation
  /\ alarms[DOOR_OPEN].Active /\ alarms[DOOR_OPEN].UnAck
  /\ ~alarms[ES_PRESSED].Active /\ ~alarms[ES_PRESSED].UnAck

\* C10: when alarms are Active, Step is the Error step of the Active alarm
\* earliest in the priority order; in a reset cycle that is also the first
\* alarm whose Status is true, so clearing the leading alarm and resetting
\* promotes the next one that is still Active.
C10_PriorityPromotion ==
  /\ MostUrgentByActive # None => step = MostUrgentByActive
  /\ (digital_inputs[RST_BUTTON] /\ MostUrgentByStatus # None)
       => step = MostUrgentByStatus

\* The emergency stop that drove the previous cycle is released and reset;
\* tank-high, temperature-high and door-open remain, tank-high takes over.
C10_Witness ==
  /\ AfterAlarmEvaluation
  /\ prev_step = "ERROR_A5"
  /\ digital_inputs[RST_BUTTON]
  /\ ~alarms[ES_PRESSED].Status
  /\ alarms[TANK_TOO_HIGH].Active
  /\ alarms[TEMP_TOO_HIGH].Active
  /\ alarms[DOOR_OPEN].Active
  /\ step = "ERROR_A0"

\* ---------------------------------------------------------------------
\* Reactions and transitions of the GRAFCET
\* ---------------------------------------------------------------------
\* The GRAFCET of the current cycle has run: the cycle's Step and outputs
\* are final and about to be published.
EndOfCycle == pc = "write_outputs"

\* Filling valve, heating and discharging valve are all commanded off.
ActuatorsOff(out) ==
  /\ ~out[FILLING_VALVE_OPEN]
  /\ ~out[HEATING_ON]
  /\ ~out[DISCHARGING_VALVE_OPEN]

\* The normal-operation table is about to run (no trip, no stop override)
\* from step st.
NormalCycleFrom(st) ==
  /\ pc = "control_logic"
  /\ ~trip
  /\ ~digital_inputs[STOP_BUTTON]
  /\ step = st

\* C11: a cycle that reads the emergency button true ends with Step =
\* Error(emergency-stop), filling valve, heating and discharging valve off
\* and the discharge gate commanded open, whatever else holds.
C11_EmergencyStopDominates ==
  (EndOfCycle /\ digital_inputs[ES_BUTTON])
    => /\ step = "ERROR_A5"
       /\ ActuatorsOff(digital_outputs)
       /\ digital_outputs[DISCHARGING_GATE_OPEN]

\* The emergency button is read together with the stop button while the
\* tank-high alarm is Active.
C11_Witness ==
  /\ EndOfCycle
  /\ digital_inputs[ES_BUTTON]
  /\ digital_inputs[STOP_BUTTON]
  /\ alarms[TANK_TOO_HIGH].Active
  /\ step = "ERROR_A5"

\* C12: a cycle that reads the high-high level sensor true ends with the
\* tank-high alarm Status true, filling valve, heating and discharging valve
\* off and the discharge gate commanded open.
C12_OverfillProtection ==
  (EndOfCycle /\ digital_inputs[HH_LVL_SENSOR])
    => /\ alarms[TANK_TOO_HIGH].Status
       /\ ActuatorsOff(digital_outputs)
       /\ digital_outputs[DISCHARGING_GATE_OPEN]

\* Overfill is detected in the cycle after one that published the
\* discharging valve open (Step was DischargingValve).
C12_Witness ==
  /\ EndOfCycle
  /\ digital_inputs[HH_LVL_SENSOR]
  /\ step = "ERROR_A0"
  /\ server_outputs[DISCHARGING_VALVE_OPEN]
  /\ ~digital_outputs[DISCHARGING_VALVE_OPEN]

\* C13: a cycle whose temperature reading exceeds the maximum ends with
\* temperature-high Status true, heating off and the discharge gate
\* commanded open, whichever alarm wins the arbitration.
C13_OverTemperatureProtection ==
  (EndOfCycle /\ analog_inputs[TEMPERATURE_SENSOR] > MAX_TEMPERATURE)
    => /\ alarms[TEMP_TOO_HIGH].Status
       /\ ~digital_outputs[HEATING_ON]
       /\ digital_outputs[DISCHARGING_GATE_OPEN]

\* Over-temperature is detected in the cycle after one that published
\* heating on (Step was Heating).
C13_Witness ==
  /\ EndOfCycle
  /\ analog_inputs[TEMPERATURE_SENSOR] > MAX_TEMPERATURE
  /\ step = "ERROR_A2"
  /\ server_outputs[HEATING_ON]
  /\ ~digital_outputs[HEATING_ON]

\* C14: whenever Step is Error(temperature-low) at the end of a cycle, the
\* filling valve and the discharging valve are closed and the discharge gate
\* is commanded open.
C14_TempLowStopsFluidFlow ==
  (EndOfCycle /\ step = "ERROR_A3")
    => /\ ~digital_outputs[FILLING_VALVE_OPEN]
       /\ ~digital_outputs[DISCHARGING_VALVE_OPEN]
       /\ digital_outputs[DISCHARGING_GATE_OPEN]

\* C15: in the error steps for tank-low and door-open a cycle turns filling
\* valve, heating and discharging valve off and leaves the discharge-gate
\* output and Step as they were.
C15_StopLeavesGate ==
  [][(pc = "control_logic" /\ step \in {"ERROR_A1", "ERROR_A4"})
       => /\ ActuatorsOff(digital_outputs')
          /\ digital_outputs'[DISCHARGING_GATE_OPEN] =
               digital_outputs[DISCHARGING_GATE_OPEN]
          /\ step' = step]_vars

\* The tank-low reaction switches off the heating that the previous cycle
\* had published on.
C15_Witness ==
  /\ EndOfCycle
  /\ step = "ERROR_A1"
  /\ server_outputs[HEATING_ON]
  /\ ActuatorsOff(digital_outputs)

\* The snapshot di with the start, run and stop buttons read as b.
WithButtons(di, b) ==
  [di EXCEPT ![START_BUTTON] = b[START_BUTTON],
             ![RUN_BUTTON] = b[RUN_BUTTON],
             ![STOP_BUTTON] = b[STOP_BUTTON]]

ButtonReadings == [{START_BUTTON, RUN_BUTTON, STOP_BUTTON} -> BOOLEAN]

\* C16: when the GRAFCET runs with Trip true, the Step and the digital
\* outputs it leaves are those it would leave for any other reading of the
\* start, run and stop buttons.
C16_ButtonsIgnoredInTrip ==
  [][(pc = "control_logic" /\ trip)
       => \A b \in ButtonReadings :
            /\ step' = execute_control_logic_step(
                         trip, step, WithButtons(digital_inputs, b),
                         analog_inputs)
            /\ digital_outputs' = execute_control_logic_outputs(
                         trip, step, digital_outputs,
                         WithButtons(digital_inputs, b), analog_inputs)]_vars

\* A trip cycle in Error(temperature-high) reads the stop button pressed and
\* still leaves the filling valve open.
C16_Witness ==
  /\ EndOfCycle
  /\ trip
  /\ step = "ERROR_A2"
  /\ digital_inputs[STOP_BUTTON]
  /\ digital_outputs[FILLING_VALVE_OPEN]

\* C17: a cycle with Trip false and the stop button true ends with Step =
\* Stop and filling valve, heating and discharging valve off, whatever the
\* step and the other inputs.
C17_StopOverride ==
  [][(pc = "control_logic" /\ ~trip /\ digital_inputs[STOP_BUTTON])
       => (step' = "STOP" /\ ActuatorsOff(digital_outputs'))]_vars

\* Stop is read together with run in a cycle after one that published the
\* filling valve open; the valve is closed and Step is Stop.
C17_Witness ==
  /\ EndOfCycle
  /\ ~trip
  /\ digital_inputs[STOP_BUTTON]
  /\ digital_inputs[RUN_BUTTON]
  /\ server_outputs[FILLING_VALVE_OPEN]
  /\ step = "STOP"
  /\ ActuatorsOff(digital_outputs)

\* C18 as stated: a normal cycle that begins in Stop with start true and the
\* gate closed ends with Step = Prefilling and the filling valve commanded
\* open.
C18_StartOpensValveAtOnce ==
  [][(/\ NormalCycleFrom("STOP")
      /\ digital_inputs[START_BUTTON]
      /\ digital_inputs[DISCHARG_GT_CLOSED])
       => (step' = "PREFILLING" /\ digital_outputs'[FILLING_VALVE_OPEN])]_vars

\* C18 amended: a normal cycle that begins in Stop leaves every output as it
\* was and ends with Step = Prefilling if start is true and the gate closed,
\* with Step = Stop otherwise; the filling valve is commanded open by a
\* normal cycle that begins in Prefilling with the low-level sensor false.
C18_StartThenValve ==
  [][/\ NormalCycleFrom("STOP")
          => /\ digital_outputs' = digital_outputs
             /\ step' = IF /\ digital_inputs[START_BUTTON]
                           /\ digital_inputs[DISCHARG_GT_CLOSED]
                        THEN "PREFILLING" ELSE "STOP"
     /\ (NormalCycleFrom("PREFILLING") /\ ~digital_inputs[L_LVL_SENSOR])
          => digital_outputs'[FILLING_VALVE_OPEN]]_vars

\* The cycle that took the start press has ended in Prefilling with the
\* filling valve still closed.
C18_Witness ==
  /\ EndOfCycle
  /\ ~trip
  /\ digital_inputs[START_BUTTON]
  /\ step = "PREFILLING"
  /\ ~digital_outputs[FILLING_VALVE_OPEN]
  /\ ~server_outputs[FILLING_VALVE_OPEN]

\* C19: a normal cycle that begins in Prefilling ends in Initialised with
\* the filling valve closed if the low-level sensor is true, and otherwise
\* stays in Prefilling with the filling valve open; no other input and no
\* other output is involved.
C19_Prefilling ==
  [][NormalCycleFrom("PREFILLING")
       => /\ step' = IF digital_inputs[L_LVL_SENSOR]
                     THEN "INITIALISED" ELSE "PREFILLING"
          /\ digital_outputs' =
               [digital_outputs EXCEPT
                  ![FILLING_VALVE_OPEN] = ~digital_inputs[L_LVL_SENSOR]]]_vars

\* Only the low-low sensor is wet and the start button is pressed again:
\* Step is still Prefilling with the filling valve open.
C19_Witness ==
  /\ EndOfCycle
  /\ ~trip
  /\ step = "PREFILLING"
  /\ digital_inputs[LL_LVL_SENSOR]
  /\ ~digital_inputs[L_LVL_SENSOR]
  /\ digital_inputs[START_BUTTON]
  /\ digital_outputs[FILLING_VALVE_OPEN]
  /\ server_outputs[FILLING_VALVE_OPEN]

\* C20: a normal cycle that begins in Initialised ends in Filling exactly
\* when the run button is true and changes no output; a normal cycle that
\* begins in Filling with the high-level sensor false commands the filling
\* valve open and stays in Filling.
C20_InitialisedToFilling ==
  [][/\ NormalCycleFrom("INITIALISED")
          => /\ step' = IF digital_inputs[RUN_BUTTON]
                        THEN "FILLING" ELSE "INITIALISED"
             /\ digital_outputs' = digital_outputs
     /\ (NormalCycleFrom("FILLING") /\ ~digital_inputs[H_LVL_SENSOR])
          => /\ step' = "FILLING"
             /\ digital_outputs'[FILLING_VALVE_OPEN]]_vars

\* The filling valve, closed when Initialised was entered, has been opened
\* again in Filling.
C20_Witness ==
  /\ EndOfCycle
  /\ ~trip
  /\ step = "FILLING"
  /\ ~digital_inputs[H_LVL_SENSOR]
  /\ digital_outputs[FILLING_VALVE_OPEN]
  /\ ~server_outputs[FILLING_VALVE_OPEN]

\* C21: a normal cycle that begins in Filling ends in Heating with the
\* filling valve closed if the high-level sensor is true, and otherwise
\* stays in Filling with the filling valve open; a normal cycle that begins
\* in Heating with the temperature below the setpoint switches heating on.
C21_FillingToHeating ==
  [][/\ NormalCycleFrom("FILLING")
          => /\ step' = IF digital_inputs[H_LVL_SENSOR]
                        THEN "HEATING" ELSE "FILLING"
             /\ digital_outputs'[FILLING_VALVE_OPEN] =
                  ~digital_inputs[H_LVL_SENSOR]
             /\ digital_outputs'[HEATING_ON] = digital_outputs[HEATING_ON]
     /\ (/\ NormalCycleFrom("HEATING")
         /\ analog_inputs[TEMPERATURE_SENSOR] < DESIRED_TEMPERATURE)
          => digital_outputs'[HEATING_ON]]_vars

\* The cycle after the one that left Filling has switched heating on; the
\* filling valve is closed.
C21_Witness ==
  /\ EndOfCycle
  /\ ~trip
  /\ step = "HEATING"
  /\ digital_inputs[H_LVL_SENSOR]
  /\ ~digital_outputs[FILLING_VALVE_OPEN]
  /\ digital_outputs[HEATING_ON]
  /\ ~server_outputs[HEATING_ON]

\* C22: a normal cycle that begins in Heating ends in DischargingValve with
\* heating off if the temperature is at or above the setpoint, and otherwise
\* stays in Heating with heating on.
C22_HeatingToDischarging ==
  [][NormalCycleFrom("HEATING")
       => IF analog_inputs[TEMPERATURE_SENSOR] >= DESIRED_TEMPERATURE
          THEN step' = "DISCHARGING_VALVE" /\ ~digital_outputs'[HEATING_ON]
          ELSE step' = "HEATING" /\ digital_outputs'[HEATING_ON]]_vars

\* Heating, published on by the previous cycle, is switched off by a cycle
\* that reads exactly the setpoint.
C22_Witness ==
  /\ EndOfCycle
  /\ ~trip
  /\ step = "DISCHARGING_VALVE"
  /\ analog_inputs[TEMPERATURE_SENSOR] = DESIRED_TEMPERATURE
  /\ server_outputs[HEATING_ON]
  /\ ~digital_outputs[HEATING_ON]

\* C23: a normal cycle that begins in DischargingValve ends in Filling with
\* the discharging valve closed if the low-level sensor is false, and stays
\* in DischargingValve with the discharging valve open while it is true.
C23_DischargingToFilling ==
  [][NormalCycleFrom("DISCHARGING_VALVE")
       => IF ~digital_inputs[L_LVL_SENSOR]
          THEN step' = "FILLING" /\ ~digital_outputs'[DISCHARGING_VALVE_OPEN]
          ELSE /\ step' = "DISCHARGING_VALVE"
               /\ digital_outputs'[DISCHARGING_VALVE_OPEN]]_vars

\* C24: in every cycle tank-low Active is true exactly when the low-low
\* sensor read by the previous cycle was true and the one read now is false
\* (false in the first cycle), and the edge memory takes the current reading,
\* reset and trip cycles included.
C24_TankLowEdgeTriggered ==
  [][pc = "update_inputs"
       => /\ alarms'[TANK_TOO_LOW].Active =
               (digital_inputs[LL_LVL_SENSOR] /\ ~digital_inputs'[LL_LVL_SENSOR])
          /\ last_low_low_sensor_state' = digital_inputs'[LL_LVL_SENSOR]]_vars

\* A tripped cycle with reset pressed reads the falling edge of the low-low
\* sensor: tank-low is Active and the edge memory is false.
C24_Witness ==
  /\ AfterAlarmEvaluation
  /\ prev_step \in ErrorSteps
  /\ digital_inputs[RST_BUTTON]
  /\ ~digital_inputs[LL_LVL_SENSOR]
  /\ alarms[TANK_TOO_LOW].Active
  /\ ~last_low_low_sensor_state

\* Two consecutive cycles read the same input snapshot with reset false: the
\* alarm evaluation of the second is about to run.
SameSnapshotNoReset ==
  /\ pc = "update_inputs"
  /\ prev_step # "unknown"
  /\ digital_inputs' = digital_inputs
  /\ analog_inputs' = analog_inputs
  /\ ~digital_inputs[RST_BUTTON]

\* C25 as stated: when two consecutive cycles read the same snapshot with
\* reset false, Active, UnAck and Status of every alarm are the same after
\* the second cycle as after the first.
C25_EvaluationIdempotent ==
  [][SameSnapshotNoReset => \A k \in Alarms : alarms'[k] = alarms[k]]_vars

\* C25 amended: under the same condition UnAck and Status of every alarm and
\* Active of the five level-triggered alarms are unchanged, and tank-low
\* Active is false after the second cycle.
C25_IdempotentBesidesTankLowEdge ==
  [][SameSnapshotNoReset
       => /\ \A k \in Alarms \ {TANK_TOO_LOW} : alarms'[k] = alarms[k]
          /\ alarms'[TANK_TOO_LOW].UnAck = alarms[TANK_TOO_LOW].UnAck
          /\ alarms'[TANK_TOO_LOW].Status = alarms[TANK_TOO_LOW].Status
          /\ ~alarms'[TANK_TOO_LOW].Active]_vars

\* The cycle after the falling-edge cycle read the same snapshot: tank-low
\* is no longer Active but still latched, next to an Active alarm that was
\* re-evaluated to the same value.
C25_Witness ==
  /\ AfterAlarmEvaluation
  /\ prev_step = "ERROR_A1"
  /\ ~digital_inputs[RST_BUTTON]
  /\ ~digital_inputs[LL_LVL_SENSOR]
  /\ ~alarms[TANK_TOO_LOW].Active
  /\ alarms[TANK_TOO_LOW].Status
  /\ alarms[DOOR_OPEN].Active
  /\ step = "ERROR_A4"

\* C26: a cycle that reads reset true while the low-low sensor reads false,
\* as it did in the cycle before, leaves a latched tank-low alarm with UnAck
\* and Status false.
C26_TankLowResetWhileSensorFalse ==
  [][(/\ pc = "update_inputs"
      /\ alarms[TANK_TOO_LOW].Status
      /\ ~digital_inputs[LL_LVL_SENSOR]
      /\ ~digital_inputs'[LL_LVL_SENSOR]
      /\ digital_inputs'[RST_BUTTON])
       => /\ ~alarms'[TANK_TOO_LOW].UnAck
          /\ ~alarms'[TANK_TOO_LOW].Status]_vars

\* Step is still Error(tank-low) from the falling edge; reset is read with
\* the low-low sensor false and the tank-low alarm is cleared.
C26_Witness ==
  /\ AfterAlarmEvaluation
  /\ prev_step = "ERROR_A1"
  /\ step = "ERROR_A1"
  /\ digital_inputs[RST_BUTTON]
  /\ ~digital_inputs[LL_LVL_SENSOR]
  /\ ~alarms[TANK_TOO_LOW].Active
  /\ ~alarms[TANK_TOO_LOW].UnAck
  /\ ~alarms[TANK_TOO_LOW].Status

\* C27: when a shutdown has stopped the loop, the cycle it arrived in has
\* finished: the alarm and output tags on the server are those the loop
\* holds.
C27_ShutdownAtCycleBoundary ==
  (raised = CancelledError)
    => /\ server_outputs = digital_outputs
       /\ server_alarms = alarms

\* C28: no iteration of write_outputs leaves a mixture on the server: after
\* each write the output tags are those of the previous commit or all those
\* of the cycle being written, so a write that fails part-way leaves one of
\* the two.
C28_NoMixedOutputs ==
  [][pc = "write_outputs"
       => \/ server_outputs' = server_outputs
          \/ server_outputs' = digital_outputs]_vars

\* A write failed after the filling valve's tag was written and before the
\* heating tag, which that cycle had switched on: the server still holds the
\* whole snapshot of the previous commit.
C28_Witness ==
  /\ pc = "stopped"
  /\ raised = UaError
  /\ next_item = 2
  /\ step = "HEATING"
  /\ digital_outputs[HEATING_ON]
  /\ ~server_outputs[HEATING_ON]

\* C29: a transport error does not take the loop to its finally block.
C29_FaultDoesNotEndLoop ==
  (raised = UaError) => pc \notin {"finally", "stopped"}

\* C30: the alarm and output tags on the server change only by a step that
\* ends a cycle and leaves on the server the alarms and outputs of that
\* cycle.
C30_OnlyCommittedSnapshots ==
  [][(server_alarms' # server_alarms \/ server_outputs' # server_outputs)
       => /\ pc' = "update_inputs"
          /\ server_alarms' = alarms'
          /\ server_outputs' = digital_outputs']_vars

\* C32: temperature-high Active is true exactly when the temperature read is
\* above the maximum, temperature-low Active exactly when it is below the
\* minimum, never both; tank-high, door-open and emergency-stop Active equal
\* the high-high sensor, the negated gate-closed sensor and the emergency
\* button of the current snapshot.
C32_ActiveConditions ==
  AfterAlarmEvaluation
    => /\ alarms[TEMP_TOO_HIGH].Active
            <=> (analog_inputs[TEMPERATURE_SENSOR] > MAX_TEMPERATURE)
       /\ alarms[TEMP_TOO_LOW].Active
            <=> (analog_inputs[TEMPERATURE_SENSOR] < MIN_TEMPERATURE)
       /\ ~(alarms[TEMP_TOO_HIGH].Active /\ alarms[TEMP_TOO_LOW].Active)
       /\ alarms[TANK_TOO_HIGH].Active <=> digital_inputs[HH_LVL_SENSOR]
       /\ alarms[DOOR_OPEN].Active <=> ~digital_inputs[DISCHARG_GT_CLOSED]
       /\ alarms[ES_PRESSED].Active <=> digital_inputs[ES_BUTTON]

\* A cycle reads exactly the maximum temperature with the gate open: neither
\* temperature alarm is Active, door-open is.
C32_Witness ==
  /\ AfterAlarmEvaluation
  /\ analog_inputs[TEMPERATURE_SENSOR] = MAX_TEMPERATURE
  /\ ~alarms[TEMP_TOO_HIGH].Active
  /\ ~alarms[TEMP_TOO_LOW].Active
  /\ ~digital_inputs[DISCHARG_GT_CLOSED]
  /\ alarms[DOOR_OPEN].Active

\* The successor of each normal step in the production loop.
NextStepOf ==
  [st \in NormalSteps |->
     CASE st = "STOP" -> "PREFILLING"
       [] st = "PREFILLING" -> "INITIALISED"
       [] st = "INITIALISED" -> "FILLING"
       [] st = "FILLING" -> "HEATING"
       [] st = "HEATING" -> "DISCHARGING_VALVE"
       [] st = "DISCHARGING_VALVE" -> "FILLING"]

\* C33: while Trip is false, every step of the loop other than the stop
\* override leaves Step as it is or moves it to its successor in
\* Stop, Prefilling, Initialised, Filling, Heating, DischargingValve, Filling.
C33_StepOrdering ==
  [][(~trip' /\ ~(pc = "control_logic" /\ digital_inputs[STOP_BUTTON]))
       => /\ step \in NormalSteps
          /\ step' \in {step, NextStepOf[step]}]_vars

\* The loop has closed: the cycle after one that published the discharging
\* valve open has moved from DischargingValve back to Filling.
C33_Witness ==
  /\ EndOfCycle
  /\ ~trip
  /\ step = "FILLING"
  /\ server_outputs[DISCHARGING_VALVE_OPEN]
  /\ ~digital_outputs[DISCHARGING_VALVE_OPEN]

\* C35: Trip is true exactly when Step is one of the six Error steps.
C35_TripIffErrorStep ==
  trip <=> (step \in ErrorSteps)

\* A tripped cycle reads the stop button pressed and ends in an Error step.
C35_Witness ==
  /\ EndOfCycle
  /\ trip
  /\ digital_inputs[STOP_BUTTON]
  /\ step \in ErrorSteps

\* C36: at the end of every cycle at most one of filling valve, heating and
\* discharging valve is commanded on, and in Stop and Initialised all three
\* are off.
C36_ActuatorMutualExclusion ==
  EndOfCycle
    => /\ Cardinality({n \in {FILLING_VALVE_OPEN, HEATING_ON,
                              DISCHARGING_VALVE_OPEN} :
                         digital_outputs[n]}) <= 1
       /\ step \in {"STOP", "INITIALISED"} => ActuatorsOff(digital_outputs)

\* The temperature-high alarm was raised from Filling: the filling valve is
\* still open and it is the only actuator on.
C36_Witness ==
  /\ EndOfCycle
  /\ step = "ERROR_A2"
  /\ digital_outputs[FILLING_VALVE_OPEN]
  /\ ~digital_outputs[HEATING_ON]
  /\ ~digital_outputs[DISCHARGING_VALVE_OPEN]

ClientWriteOutput(n) ==
  /\ pc \in AwaitPoints
  /\ server_outputs' = [server_outputs EXCEPT ![n] = ~server_outputs[n]]
  /\ UNCHANGED server_inputs
  /\ UNCHANGED <<digital_inputs, analog_inputs, digital_outputs, alarms, step,
                 trip, last_low_low_sensor_state, prev_step, server_alarms,
                 pc, next_item, raised>>

\* set_opcua_server makes every alarm attribute tag writable: a client
\* inverts attribute a of alarm k.
ClientWriteAlarm(k, a) ==
  /\ pc \in AwaitPoints
  /\ server_alarms' =
       [server_alarms EXCEPT ![k] =
          [b \in {"Active", "UnAck", "Status"} |->
             IF b = a THEN ~server_alarms[k][b] ELSE server_alarms[k][b]]]
  /\ UNCHANGED server_inputs
  /\ UNCHANGED <<digital_inputs, analog_inputs, digital_outputs, alarms, step,
                 trip, last_low_low_sensor_state, prev_step, server_outputs,
                 pc, next_item, raised>>

NextClient ==
  \/ \E changed \in ClientChangedTagSets, t \in TempValues :
       UpdateInputs(changed, t)
  \/ SetAlarm
  \/ ExecuteGrafcet
  \/ WriteOutput
  \/ \E n \in DigitalOutputs : ClientWriteOutput(n)
  \/ \E k \in ClientWrittenAlarms, a \in {"Active", "UnAck", "Status"} :
       ClientWriteAlarm(k, a)

SpecClient == Init /\ [][NextClient]_vars

\* ---------------------------------------------------------------------
\* update_inputs at the granularity of its tag reads
\* ---------------------------------------------------------------------
\* The order in which update_inputs reads the tags: the keys of
\* self.digital_inputs, then those of self.analog_inputs.
inputs_order ==
  <<START_BUTTON, RUN_BUTTON, STOP_BUTTON, ES_BUTTON, RST_BUTTON,
    LL_LVL_SENSOR, L_LVL_SENSOR, H_LVL_SENSOR, HH_LVL_SENSOR,
    DISCHARG_GT_CLOSED, TEMPERATURE_SENSOR>>

\* Input tags a client writes in SpecSnapshot.
SnapshotInputTags == {START_BUTTON, LL_LVL_SENSOR, L_LVL_SENSOR}

\* The level sensors of one tank: the low sensor is covered only when the
\* low-low sensor is. The test helpers raise the level by writing the
\* low-low tag before the low tag.
level_sensors_consistent(tags) == tags[L_LVL_SENSOR] => tags[LL_LVL_SENSOR]

\* One iteration of the for loops of update_inputs: read one tag from the
\* server into the controller's dictionary. After the last read the loop
\* runs handle_alarms on what it has read.
ReadInput ==
  /\ pc = "update_inputs"
  /\ LET name == inputs_order[next_item]
         di == IF name \in DigitalInputs
               THEN [digital_inputs EXCEPT ![name] = server_inputs[name]]
               ELSE digital_inputs
         ai == IF name \in AnalogInputs
               THEN [analog_inputs EXCEPT ![name] = server_inputs[name]]
               ELSE analog_inputs
         al == handle_alarms_registers(alarms, di, ai,
                                       last_low_low_sensor_state)
         alarm_id == check_alarms_and_return_most_urgent(al)
     IN /\ digital_inputs' = di
        /\ analog_inputs' = ai
        /\ IF next_item < Len(inputs_order)
           THEN /\ next_item' = next_item + 1
                /\ pc' = "update_inputs"
                /\ UNCHANGED <<alarms, server_alarms, trip, step,
                               last_low_low_sensor_state>>
           ELSE /\ next_item' = 1
                /\ pc' = "control_logic"
                /\ alarms' = al
                /\ server_alarms' = al
                /\ last_low_low_sensor_state' = di[LL_LVL_SENSOR]
                /\ trip' = handle_alarms_trip(alarm_id, trip)
                /\ step' = handle_alarms_step(alarm_id, step)
  /\ UNCHANGED <<digital_outputs, prev_step, server_outputs, raised,
                 server_inputs>>

\* set_opcua_server makes every input tag writable: a client inverts input
\* tag n while the loop is suspended in an await.
ClientWriteInput(n) ==
  /\ pc \in AwaitPoints
  /\ LET tags == [server_inputs EXCEPT ![n] = ~server_inputs[n]]
     IN /\ level_sensors_consistent(tags)
        /\ server_inputs' = tags
  /\ UNCHANGED <<digital_inputs, analog_inputs, digital_outputs, alarms, step,
                 trip, last_low_low_sensor_state, prev_step, server_outputs,
                 server_alarms, pc, next_item, raised>>

NextSnapshot ==
  \/ ReadInput
  \/ \E n \in SnapshotInputTags : ClientWriteInput(n)
  \/ ExecuteGrafcet
  \/ WriteOutputs

SpecSnapshot == Init /\ [][NextSnapshot]_vars

\* The order in which the positions of the scan loop follow each other.
PhaseSuccession ==
  {<<"update_inputs", "set_alarms">>, <<"set_alarms", "control_logic">>,
   <<"control_logic", "write_outputs">>, <<"write_outputs", "update_inputs">>,
   <<"finally", "stopped">>}
    \cup (AwaitPoints \X {"finally"})

\* C31: the loop passes from input read to alarm evaluation to state
\* evaluation to output commit and back; alarms change only in the first two
\* phases, the outputs only in the state evaluation, the output tags only in
\* the commit, and an input read starts only when the previous commit is
\* complete.
C31_PhaseOrder ==
  [][/\ pc' # pc => <<pc, pc'>> \in PhaseSuccession
     /\ (pc = "update_inputs" /\ pc' = "set_alarms")
          => (next_item = 1 /\ server_outputs = digital_outputs)
     /\ alarms' # alarms => pc \in {"update_inputs", "set_alarms"}
     /\ digital_outputs' # digital_outputs => pc = "control_logic"
     /\ server_outputs' # server_outputs => pc = "write_outputs"]_vars

\* A cycle whose commit changed the heating tag, the third written, has
\* completed and the next input read is due.
C31_Witness ==
  /\ pc = "update_inputs"
  /\ next_item = 1
  /\ raised = None
  /\ step = "HEATING"
  /\ digital_outputs[HEATING_ON]
  /\ server_outputs = digital_outputs

\* The scan loop has moved: the step is one of its own, not a client's write.
LoopStep == pc' # pc \/ next_item' # next_item

\* C34: a step in which the scan loop does not move (a client's write to an
\* output or alarm tag) changes none of the controller's alarms, Step, Trip,
\* outputs and edge memory, and each publication of the loop leaves the tag
\* it writes with the controller's value.
C34_ClientWritesHaveNoEffect ==
  [][/\ ~LoopStep
          => UNCHANGED <<alarms, step, trip, digital_outputs,
                         last_low_low_sensor_state>>
     /\ (LoopStep /\ pc = "set_alarms")
          => server_alarms'[alarms_order[next_item]] =
               alarms'[alarms_order[next_item]]
     /\ (LoopStep /\ pc = "write_outputs")
          => server_outputs'[digital_outputs_order[next_item]] =
               digital_outputs'[digital_outputs_order[next_item]]]_vars

\* A client has set the heating tag, which the controller holds off in
\* Prefilling, and the temperature-high Status tag of an alarm that is not
\* latched; the loop has written the filling valve's tag and is about to
\* write the others.
C34_Witness ==
  /\ pc = "write_outputs"
  /\ next_item = 2
  /\ step = "PREFILLING"
  /\ ~trip
  /\ ~digital_outputs[HEATING_ON]
  /\ server_outputs[HEATING_ON]
  /\ ~alarms[TEMP_TOO_HIGH].Status
  /\ server_alarms[TEMP_TOO_HIGH].Status
  /\ server_outputs[FILLING_VALVE_OPEN] = digital_outputs[FILLING_VALVE_OPEN]

\* The level tags on the server are consistent at every instant.
ServerLevelSensorsConsistent == level_sensors_consistent(server_inputs)

\* C38: the input values a cycle evaluates held together on the server at
\* one instant. The level tags are consistent at every instant, so the
\* values the alarm subsystem and the GRAFCET evaluate are consistent too.
C38_AtomicSnapshot ==
  AfterAlarmEvaluation => level_sensors_consistent(digital_inputs)

\* The inputs of a cycle are not written between the end of the read and
\* the next read.
SnapshotReadOnlyWithinCycle ==
  [][pc # "update_inputs" => UNCHANGED <<digital_inputs, analog_inputs>>]_vars

====
